---- MODULE Spec2Model ----
(***************************************************************************)
(* Markdown-table extraction and normalisation of pages/agentic_rag.py:    *)
(* extract_markdown_table and parse_portfolio_table (Spec), the            *)
(* recommendation flow that calls them (FlowSpec), and the lru_cache of    *)
(* get_stock_data (CacheSpec).                                             *)
(*                                                                         *)
(* A text is a sequence of one-character strings.  The two Hangul          *)
(* characters of the keyword "비중" are written "U+BE44" and "U+C911".     *)
(* None is the one-element sequence <<"None">>, which is no text.          *)
(***************************************************************************)
EXTENDS Integers, Sequences, FiniteSets, TLC

VARIABLES
    answer,       \* the text handed to extract_markdown_table, None when none was
    table_md,     \* the table block: extract's first result, parse's argument
    explanation,  \* extract's second result
    df,           \* what parse_portfolio_table returned
    raised,       \* an exception left one of the two functions
    st_error,     \* parse_portfolio_table called st.error
    given,        \* how the table block under test was written (see TableBlocks)
    pc,
    df2,          \* what parse_portfolio_table returned for the table df written
                  \* back as text
    ui,           \* the Streamlit calls of the recommendation flow, in order
    cache,        \* the entries of get_stock_data's lru_cache, least recently
                  \* used first
    sess,         \* per session: where its call of get_stock_data stands
    ev            \* the last step of a call of get_stock_data

tableVars == <<answer, table_md, explanation, df, raised, st_error, given, pc, df2, ui>>

cacheVars == <<cache, sess, ev>>

vars == <<answer, table_md, explanation, df, raised, st_error, given, pc, df2, ui,
          cache, sess, ev>>

None == <<"None">>

(***************************************************************************)
(* Bounds of the model.                                                    *)
(***************************************************************************)
\* longest answer text handed to extract_markdown_table
MaxLen == 5
\* most data rows of a generated table block
MaxRows == 2

(***************************************************************************)
(* Python str primitives.                                                  *)
(***************************************************************************)
\* characters str.strip() removes (those of them the model's texts use)
Whitespace == {" ", "\n", "\r", "\t"}

\* line boundaries of str.splitlines() (those of them the model's texts use)
LineBreaks == {"\n", "\r"}

RECURSIVE lstrip(_)
lstrip(s) ==
    IF s # <<>> /\ Head(s) \in Whitespace THEN lstrip(Tail(s)) ELSE s

RECURSIVE rstrip(_)
rstrip(s) ==
    IF s # <<>> /\ s[Len(s)] \in Whitespace
    THEN rstrip(SubSeq(s, 1, Len(s) - 1))
    ELSE s

strip(s) == rstrip(lstrip(s))

\* s[i:] starts with sub
StartsWithAt(s, sub, i) ==
    /\ i + Len(sub) - 1 <= Len(s)
    /\ \A k \in 1..Len(sub) : s[i + k - 1] = sub[k]

\* str.find, 1-based; 0 when sub does not occur in s
find(s, sub) ==
    LET hits == {i \in 1..(Len(s) + 1) : StartsWithAt(s, sub, i)}
    IN  IF hits = {} THEN 0 ELSE CHOOSE i \in hits : \A j \in hits : i <= j

\* sub in s
contains(s, sub) == find(s, sub) # 0

\* str.split(sep) for a non-empty sep: the pieces between the non-overlapping
\* occurrences of sep, scanned left to right; i is find(s, sep)
RECURSIVE split_at(_, _, _)
split_at(s, sep, i) ==
    IF i = 0
    THEN <<s>>
    ELSE <<SubSeq(s, 1, i - 1)>>
            \o split_at(SubSeq(s, i + Len(sep), Len(s)), sep,
                        find(SubSeq(s, i + Len(sep), Len(s)), sep))

split(s, sep) == split_at(s, sep, find(s, sep))

\* the position of the first line boundary of s, 0 when it has none
first_break(s) ==
    IF \A i \in 1..Len(s) : s[i] \notin LineBreaks THEN 0
    ELSE CHOOSE i \in 1..Len(s) :
            s[i] \in LineBreaks /\ \A j \in 1..(i - 1) : s[j] \notin LineBreaks

\* str.splitlines(): "\r\n" is one boundary, and a final boundary opens no
\* further line; i is first_break(s)
RECURSIVE splitlines_at(_, _)
splitlines_at(s, i) ==
    IF s = <<>> THEN <<>>
    ELSE IF i = 0 THEN <<s>>
    ELSE IF s[i] = "\r" /\ i < Len(s) /\ s[i + 1] = "\n"
    THEN <<SubSeq(s, 1, i - 1)>>
            \o splitlines_at(SubSeq(s, i + 2, Len(s)),
                             first_break(SubSeq(s, i + 2, Len(s))))
    ELSE <<SubSeq(s, 1, i - 1)>>
            \o splitlines_at(SubSeq(s, i + 1, Len(s)),
                             first_break(SubSeq(s, i + 1, Len(s))))

splitlines(s) == splitlines_at(s, first_break(s))

\* sep.join(parts)
RECURSIVE join(_, _)
join(sep, parts) ==
    IF parts = <<>> THEN <<>>
    ELSE IF Len(parts) = 1 THEN parts[1]
    ELSE parts[1] \o sep \o join(sep, Tail(parts))

\* str.replace(old, '') for a one-character old
remove_char(s, c) == SelectSeq(s, LAMBDA x : x # c)

\* set(s)
char_set(s) == {s[i] : i \in 1..Len(s)}

(***************************************************************************)
(* extract_markdown_table                                                  *)
(***************************************************************************)
\* the for loop over the lines still to visit, in_table as the loop has left it
RECURSIVE scan_lines(_, _)
scan_lines(lines, in_table) ==
    IF lines = <<>> THEN <<>>
    ELSE IF "|" \in char_set(Head(lines))
         THEN <<Head(lines)>> \o scan_lines(Tail(lines), TRUE)
         ELSE IF in_table /\ strip(Head(lines)) = <<>>
              THEN <<>>
              ELSE scan_lines(Tail(lines), in_table)

table_lines_of(text) == scan_lines(splitlines(text), FALSE)

\* a faulty variant of no_table_result: the text comes back trimmed
no_table_result_trimmed(text) ==
    [table_md |-> None, explanation |-> strip(text), raises |-> FALSE]

\* "if not table_lines: return None, answer"
no_table_result(text) == [table_md |-> None, explanation |-> text, raises |-> FALSE]

\* "if table_md in answer": whether split(...)[1] is evaluated
second_piece_used(text, md) == contains(text, md)

\* pre + "\n\n" + post, from the pieces of answer.split(table_md); raises is
\* TRUE when an exception leaves the function: the IndexError of indexing a
\* piece that split() did not produce
remainder_of(md, parts, use2) ==
    [table_md |-> md,
     explanation |-> strip(parts[1]) \o <<"\n", "\n">>
                        \o (IF use2 /\ Len(parts) >= 2 THEN strip(parts[2]) ELSE <<>>),
     raises |-> use2 /\ Len(parts) < 2]

split_around(text, md) == remainder_of(md, split(text, md), second_piece_used(text, md))

extract_from(text, table_lines) ==
    IF table_lines = <<>>
    THEN no_table_result(text)
    ELSE split_around(text, join(<<"\n">>, table_lines))

extract_markdown_table(text) == extract_from(text, table_lines_of(text))

(***************************************************************************)
(* Cell values of a DataFrame: a string, a missing value (NaN), a finite   *)
(* number m / 10^e (kept normalised: e = 0 or m not a multiple of 10), or  *)
(* an infinity of sign m.                                                  *)
(***************************************************************************)
StrCell(s) == [t |-> "str", s |-> s, m |-> 0, e |-> 0]

NaN == [t |-> "nan", s |-> <<>>, m |-> 0, e |-> 0]

RECURSIVE Num(_, _)
Num(m, e) ==
    IF e > 0 /\ m % 10 = 0
    THEN Num(m \div 10, e - 1)
    ELSE [t |-> "num", s |-> <<>>, m |-> m, e |-> e]

Inf(sign) == [t |-> "inf", s |-> <<>>, m |-> sign, e |-> 0]

Digits == <<"0", "1", "2", "3", "4", "5", "6", "7", "8", "9">>

DigitSet == {Digits[i] : i \in 1..10}

DigitVal(c) == (CHOOSE i \in 1..10 : Digits[i] = c) - 1

UpperLetters ==
    <<"A", "B", "C", "D", "E", "F", "G", "H", "I", "J", "K", "L", "M",
      "N", "O", "P", "Q", "R", "S", "T", "U", "V", "W", "X", "Y", "Z">>

LowerLetters ==
    <<"a", "b", "c", "d", "e", "f", "g", "h", "i", "j", "k", "l", "m",
      "n", "o", "p", "q", "r", "s", "t", "u", "v", "w", "x", "y", "z">>

\* str.lower()
lower(s) ==
    [i \in 1..Len(s) |->
        IF \E k \in 1..26 : UpperLetters[k] = s[i]
        THEN LowerLetters[CHOOSE k \in 1..26 : UpperLetters[k] = s[i]]
        ELSE s[i]]

\* the decimal digits of s as a natural number
RECURSIVE digits_value(_)
digits_value(s) ==
    IF s = <<>> THEN 0
    ELSE 10 * digits_value(SubSeq(s, 1, Len(s) - 1)) + DigitVal(s[Len(s)])

all_digits(s) == \A i \in 1..Len(s) : s[i] \in DigitSet

\* The literals pandas' number parser takes besides decimal numerals,
\* compared without case and without any surrounding blank.
PosInfWords ==
    { <<"i", "n", "f">>, <<"+", "i", "n", "f">>,
      <<"i", "n", "f", "i", "n", "i", "t", "y">>,
      <<"+", "i", "n", "f", "i", "n", "i", "t", "y">> }

NegInfWords ==
    { <<"-", "i", "n", "f">>, <<"-", "i", "n", "f", "i", "n", "i", "t", "y">> }

\* a string that is no numeral: an infinity word, or NaN (errors='coerce')
word_value(w) ==
    IF w \in PosInfWords THEN Inf(1)
    ELSE IF w \in NegInfWords THEN Inf(-1)
    ELSE NaN

\* [sign] ip [. fp] with at least one digit is a numeral
decimal_or_word(s, sign, ip, fp) ==
    IF all_digits(ip) /\ all_digits(fp) /\ Len(ip) + Len(fp) > 0
    THEN Num(sign * digits_value(ip \o fp), Len(fp))
    ELSE word_value(lower(s))

unsigned_value(s, sign, body, dot) ==
    decimal_or_word(s, sign,
                    IF dot = 0 THEN body ELSE SubSeq(body, 1, dot - 1),
                    IF dot = 0 THEN <<>> ELSE SubSeq(body, dot + 1, Len(body)))

signed_value(s, t) ==
    IF t # <<>> /\ Head(t) \in {"+", "-"}
    THEN unsigned_value(s, IF Head(t) = "-" THEN -1 ELSE 1, Tail(t),
                        find(Tail(t), <<".">>))
    ELSE unsigned_value(s, 1, t, find(t, <<".">>))

\* pd.to_numeric(..., errors='coerce') on one string: blanks around the
\* numeral are skipped (numerals with an exponent are outside the texts of
\* this model)
to_numeric(s) == signed_value(s, strip(s))

\* Series.astype(str) on one cell
astype_str(cell) ==
    IF cell.t = "nan" THEN <<"n", "a", "n">> ELSE cell.s

\* pandas isna(): what dropna removes
isna(cell) == cell.t = "nan"

(***************************************************************************)
(* pd.read_csv(buffer, sep="|", skipinitialspace=True), C engine.          *)
(***************************************************************************)
\* the strings read_csv reads as a missing value by default
NaStrings ==
    { <<>>, <<"N", "A">>, <<"N", "/", "A">>, <<"n", "/", "a">>,
      <<"n", "a", "n">>, <<"N", "a", "N">>, <<"-", "n", "a", "n">>,
      <<"-", "N", "a", "N">>, <<"#", "N", "A">>, <<"#", "N", "/", "A">>,
      <<"N", "U", "L", "L">>, <<"n", "u", "l", "l">>, <<"N", "o", "n", "e">>,
      <<"<", "N", "A", ">">> }

RECURSIVE skip_initial_space(_)
skip_initial_space(s) ==
    IF s # <<>> /\ Head(s) \in {" ", "\t"} THEN skip_initial_space(Tail(s)) ELSE s

\* the fields of one record
skip_each(raw) == [i \in 1..Len(raw) |-> skip_initial_space(raw[i])]

fields_of(line) == skip_each(split(line, <<"|">>))

\* skip_blank_lines: a line of blanks only is no record
is_blank_line(line) == \A i \in 1..Len(line) : line[i] \in {" ", "\t"}

select_records(lines) == SelectSeq(lines, LAMBDA line : ~is_blank_line(line))

UnnamedPrefix == <<"U", "n", "n", "a", "m", "e", "d">>

\* the name read_csv gives the i-th column (0-based) when its header is empty
unnamed(i) == UnnamedPrefix \o <<":", " ", Digits[i + 1]>>

\* header names with duplicates renamed X, X.1, X.2, ...
mangle_dupes(header) ==
    [i \in 1..Len(header) |->
        IF \A j \in 1..(i - 1) : header[j] # header[i]
        THEN header[i]
        ELSE header[i]
                \o <<".", Digits[Cardinality({j \in 1..(i - 1) : header[j] = header[i]}) + 1]>>]

column_names(header_fields) ==
    mangle_dupes([i \in 1..Len(header_fields) |->
        IF header_fields[i] = <<>> THEN unnamed(i - 1) ELSE header_fields[i]])

Max(a, b) == IF a >= b THEN a ELSE b

\* one parsed cell: a missing field or a missing-value string is NaN
read_cell(fields, i) ==
    IF i > Len(fields) THEN NaN
    ELSE IF fields[i] \in NaStrings THEN NaN
    ELSE StrCell(fields[i])

ExceptionResult == [kind |-> "Exception", columns |-> <<>>, rows |-> <<>>]

\* width is the number of fields of a record after the header's
frame_with(header, data, width) ==
    IF \E j \in 2..Len(data) : Len(data[j]) > width
    THEN ExceptionResult
    ELSE [kind |-> "DataFrame",
          columns |-> column_names(header),
          rows |-> [j \in 1..Len(data) |->
                      [k \in 1..Len(header) |->
                          read_cell(data[j], width - Len(header) + k)]]]

frame_from(header, data) ==
    frame_with(header, data,
               IF data = <<>> THEN Len(header) ELSE Max(Len(header), Len(data[1])))

frame_of(records) ==
    IF records = <<>>
    THEN ExceptionResult
    ELSE frame_from(fields_of(records[1]),
                    [j \in 1..(Len(records) - 1) |-> fields_of(records[j + 1])])

\* The frame read_csv builds, or the exception it raises.  No record at all
\* is an EmptyDataError.  The first record is the header.  A first data
\* record longer than the header makes its leading fields the index; a later
\* record longer than the record before it is a ParserError; a shorter
\* record is padded with NaN.
read_csv(text) == frame_of(select_records(split(text, <<"\n">>)))

(***************************************************************************)
(* parse_portfolio_table                                                   *)
(***************************************************************************)
NoneResult == [kind |-> "None", columns |-> <<>>, rows |-> <<>>]

\* set(line.replace('|', '').replace(' ', '')) <= {'-'}
is_decorative(line) ==
    char_set(remove_char(remove_char(line, "|"), " ")) \subseteq {"-"}

\* a faulty variant of clean_lines_of: the second line is taken to be the dash
\* row and dropped unseen
clean_lines_drop_second(md) ==
    [i \in 1..(Len(splitlines(strip(md))) - (IF Len(splitlines(strip(md))) >= 2 THEN 1 ELSE 0)) |->
        splitlines(strip(md))[IF i = 1 THEN 1 ELSE i + 1]]

clean_lines_of(md) ==
    SelectSeq(splitlines(strip(md)), LAMBDA line : ~is_decorative(line))

\* the positions of cols, in order, whose name does not match '^Unnamed'
RECURSIVE named_positions(_, _)
named_positions(cols, i) ==
    IF i > Len(cols) THEN <<>>
    ELSE IF StartsWithAt(cols[i], UnnamedPrefix, 1)
         THEN named_positions(cols, i + 1)
         ELSE <<i>> \o named_positions(cols, i + 1)

Keywords ==
    { <<"w", "e", "i", "g", "h", "t">>, <<"U+BE44", "U+C911">>,
      <<"r", "a", "t", "i", "o">> }

\* any(keyword in c.lower() for keyword in [...])
has_keyword(name) == \E kw \in Keywords : contains(lower(name), kw)

\* a faulty variant of weight_position: without a match the second column is taken,
\* as plot_portfolio_interactive does
weight_position_fallback(names) ==
    LET hits == {k \in 1..Len(names) : has_keyword(names[k])}
    IN  IF hits = {} THEN (IF Len(names) >= 2 THEN 2 ELSE 0)
        ELSE CHOOSE k \in hits : \A j \in hits : k <= j

\* a faulty variant of weight_position: the loop without its break, the last
\* matching column wins
weight_position_last(names) ==
    LET hits == {k \in 1..Len(names) : has_keyword(names[k])}
    IN  IF hits = {} THEN 0 ELSE CHOOSE k \in hits : \A j \in hits : k >= j

\* the for loop over df.columns: the first matching column, 0 when none
weight_position(names) ==
    LET hits == {k \in 1..Len(names) : has_keyword(names[k])}
    IN  IF hits = {} THEN 0 ELSE CHOOSE k \in hits : \A j \in hits : k <= j

\* a faulty variant of normalize_weight: thousands separators are kept
normalize_weight_keep_commas(cell) ==
    to_numeric(remove_char(astype_str(cell), "%"))

\* .astype(str).str.replace('%', '').str.replace(',', '') and pd.to_numeric
normalize_weight(cell) ==
    to_numeric(remove_char(remove_char(astype_str(cell), "%"), ","))

\* a faulty variant of dropna_weight: no row is dropped
dropna_weight_not(rows, w) == rows

\* df.dropna(subset=[weight_col]).reset_index(drop=True)
dropna_weight(rows, w) == SelectSeq(rows, LAMBDA row : ~isna(row[w]))

\* df.columns.str.strip()
strip_names(names) == [k \in 1..Len(names) |-> strip(names[k])]

\* the frame with the weight column w coerced and the rows without a weight
\* dropped; df[weight_col] is a frame when the name is not unique, and a frame
\* has no .str: AttributeError
coerce_weight(frame, keep, names, w) ==
    IF w = 0 THEN NoneResult
    ELSE IF \E k \in 1..Len(names) : k # w /\ names[k] = names[w]
    THEN ExceptionResult
    ELSE [kind |-> "DataFrame", columns |-> names,
          rows |-> dropna_weight(
                     [j \in 1..Len(frame.rows) |->
                        [k \in 1..Len(keep) |->
                            IF k = w
                            THEN normalize_weight(frame.rows[j][keep[k]])
                            ELSE frame.rows[j][keep[k]]]], w)]

find_weight(frame, keep, names) == coerce_weight(frame, keep, names, weight_position(names))

\* keep: the positions of the columns that stay
named_columns(frame, keep) ==
    find_weight(frame, keep, strip_names([k \in 1..Len(keep) |-> frame.columns[keep[k]]]))

normalize_frame(frame) ==
    IF frame.kind = "Exception" THEN ExceptionResult
    ELSE named_columns(frame, named_positions(frame.columns, 1))

\* the body of the try block: a frame, None, or the exception raised
parse_body(md) == normalize_frame(read_csv(join(<<"\n">>, clean_lines_of(md))))

\* a faulty variant of handle_exception: no except clause
handle_exception_not(r) == r @@ [st_error |-> FALSE]

\* "except Exception as e: st.error(...); return None"
handle_exception(r) ==
    IF r.kind = "Exception"
    THEN NoneResult @@ [st_error |-> TRUE]
    ELSE r @@ [st_error |-> FALSE]

parse_portfolio_table(md) == handle_exception(parse_body(md))

(***************************************************************************)
(* plot_portfolio_interactive: the column it takes the weights from.       *)
(***************************************************************************)
\* the position of the first column that carries the name
position_of(names, name) ==
    CHOOSE k \in 1..Len(names) : names[k] = name /\ \A j \in 1..(k - 1) : names[j] # name

\* weight_cols[0], or df.columns[1] when no name matches (0: no such column)
plot_weight_position(names) ==
    LET weight_cols == {k \in 1..Len(names) : has_keyword(names[k])}
    IN  IF weight_cols = {}
        THEN (IF Len(names) >= 2 THEN 2 ELSE 0)
        ELSE position_of(names, names[CHOOSE k \in weight_cols : \A j \in weight_cols : k <= j])

(***************************************************************************)
(* The inputs: every short text over TextChars for extract_markdown_table, *)
(* and table blocks of three columns for parse_portfolio_table.            *)
(***************************************************************************)
TextChars == {"|", "a", " ", "\n", "\r"}

Texts == UNION {[1..n -> TextChars] : n \in 0..MaxLen}

Nm == <<"N", "m">>
Co == <<"C", "o">>
Pct == <<"P", "c", "t">>
Weight == <<"W", "e", "i", "g", "h", "t">>
RATIO == <<"R", "A", "T", "I", "O">>
Bijung == <<"U+BE44", "U+C911">>
Empty == <<>>

\* header rows, as their three cells
Headers ==
    { <<Nm, Weight, Co>>, <<Nm, RATIO, Co>>, <<Nm, Bijung, Co>>,
      <<Nm, Pct, Co>>, <<Nm, Weight, Nm>>, <<Weight, Weight, Co>>,
      <<Nm, Weight, Empty>>, <<Nm, Weight, Weight>>, <<Nm, RATIO, Weight>> }

\* how a row is written: "| a | b | c |", "a|b|c", or the first with the
\* i-th cell followed by i blanks
Styles == {"md", "compact", "pad"}

C40pct == <<"4", "0", "%">>
C1000 == <<"1", ",", "0", "0", "0">>
CNeg35 == <<"-", "3", ".", "5">>
CNA == <<"N", "/", "A">>
CInf == <<"i", "n", "f">>

WeightCells == {C40pct, C1000, CNeg35, CNA, CInf}

\* a data row: its weight cell, and its shape: "normal" (three cells),
\* "long" (a fourth cell) or "short" (the name cell alone)
RowSpecs ==
    {[shape |-> "normal", w |-> c] : c \in WeightCells}
        \cup {[shape |-> "long", w |-> C40pct], [shape |-> "short", w |-> Empty]}

RowNames == <<<<"A">>, <<"B">>, <<"C">>, <<"D">>>>

\* the third cell of the i-th data row: empty in the odd rows
third_cell(i) == IF i % 2 = 1 THEN Empty ELSE <<"x">>

row_cells(spec, i) ==
    IF spec.shape = "short" THEN <<RowNames[i]>>
    ELSE IF spec.shape = "long" THEN <<RowNames[i], spec.w, third_cell(i), <<"z">>>>
    ELSE <<RowNames[i], spec.w, third_cell(i)>>

RECURSIVE blanks(_)
blanks(n) == IF n = 0 THEN <<>> ELSE <<" ">> \o blanks(n - 1)

RECURSIVE format_from(_, _, _)
format_from(cells, style, i) ==
    IF i > Len(cells) THEN <<>>
    ELSE <<" ">> \o cells[i] \o (IF style = "pad" THEN blanks(i) ELSE <<" ">>)
            \o <<"|">> \o format_from(cells, style, i + 1)

format_line(cells, style) ==
    IF style = "compact" THEN join(<<"|">>, cells)
    ELSE <<"|">> \o format_from(cells, style, 1)

Dashes == <<"-", "-", "-">>

\* the cells of the row under the header: dashes, or markdown alignment marks
separator_cells(deco) ==
    IF deco = "colon"
    THEN << <<":", "-", "-">>, <<"-", "-", ":">>, <<":", "-", ":">> >>
    ELSE <<Dashes, Dashes, Dashes>>

\* dash: a separator row follows the header; deco: "colon", that row carries
\* alignment colons; "end", one more row of dashes closes the block
block_text(g) ==
    join(<<"\n">>,
         <<format_line(g.header, g.style)>>
            \o (IF g.dash THEN <<format_line(separator_cells(g.deco), g.style)>>
                ELSE <<>>)
            \o [i \in 1..Len(g.rows) |-> format_line(row_cells(g.rows[i], i), g.style)]
            \o (IF g.deco = "end" THEN <<format_line(<<Dashes, Dashes, Dashes>>, g.style)>>
                ELSE <<>>))

TableBlocks ==
    {g \in [style : Styles, header : Headers, dash : BOOLEAN,
            deco : {"none", "colon", "end"},
            rows : UNION {[1..n -> RowSpecs] : n \in 0..MaxRows}] :
        g.deco = "colon" => g.dash}

NoGiven ==
    [style |-> "none", header |-> <<>>, dash |-> FALSE, deco |-> "none", rows |-> <<>>]

\* blocks handed to parse_portfolio_table that no table generator writes
EdgeBlocks ==
    { <<>>, <<" ">>, <<"\n">>, <<"-", "-", "-">>, <<"|", "-", "-", "-", "|">>,
      <<"|", " ", "|">>, <<"N", "m">> }

NoFrame == [kind |-> "None", columns |-> <<>>, rows |-> <<>>]

\* df2 before the second call
NotParsed == [kind |-> "NotParsed", columns |-> <<>>, rows |-> <<>>]

(***************************************************************************)
(* A returned table written back as pipe-delimited text: the header line   *)
(* and one line per row, no dash row, each line as a markdown table row    *)
(* "|c1|c2|c3|" with the cells as they are.  A number is written as        *)
(* Python's str(float) writes it, a missing cell as the empty string.      *)
(***************************************************************************)
RECURSIVE nat_str(_)
nat_str(n) ==
    IF n < 10 THEN <<Digits[n + 1]>>
    ELSE nat_str(n \div 10) \o <<Digits[(n % 10) + 1]>>

RECURSIVE pow10(_)
pow10(e) == IF e = 0 THEN 1 ELSE 10 * pow10(e - 1)

\* the e digits after the decimal point of n / 10^e
RECURSIVE frac_str(_, _)
frac_str(n, e) ==
    IF e = 0 THEN <<>>
    ELSE frac_str(n \div 10, e - 1) \o <<Digits[(n % 10) + 1]>>

abs(m) == IF m < 0 THEN -m ELSE m

float_str(cell) ==
    (IF cell.m < 0 THEN <<"-">> ELSE <<>>)
        \o nat_str(abs(cell.m) \div pow10(cell.e))
        \o <<".">>
        \o (IF cell.e = 0 THEN <<"0">> ELSE frac_str(abs(cell.m) % pow10(cell.e), cell.e))

cell_text(cell) ==
    IF cell.t = "str" THEN cell.s
    ELSE IF cell.t = "nan" THEN <<>>
    ELSE IF cell.t = "inf" THEN (IF cell.m < 0 THEN <<"-", "i", "n", "f">> ELSE <<"i", "n", "f">>)
    ELSE float_str(cell)

pipe_row(cells) == <<"|">> \o join(<<"|">>, cells) \o <<"|">>

to_pipe_text(frame) ==
    join(<<"\n">>,
         <<pipe_row(frame.columns)>>
            \o [j \in 1..Len(frame.rows) |->
                    pipe_row([k \in 1..Len(frame.rows[j]) |-> cell_text(frame.rows[j][k])])])

(***************************************************************************)
(* get_stock_data behind functools.lru_cache(maxsize=32).  The program     *)
(* calls it as get_stock_data(ticker), so the key of an entry is the       *)
(* ticker, the period being the default.  A ticker is a number.            *)
(***************************************************************************)
maxsize == 32

\* the tickers asked for
MaxTickers == 33

Tickers == 1..MaxTickers

\* the tickers whose fetch can fail
FlakyTickers == {1, 2}

\* the sessions (threads) that call get_stock_data
Sessions == {"s1", "s2"}

\* "return info, history"
Fetched == "data"

\* "return {}, pd.DataFrame()"
FetchFailed == "empty"

NoEvent == [type |-> "none", sess |-> "none", key |-> 0, result |-> "none", warned |-> FALSE]

NoCall == [pc |-> "idle", key |-> 0]

CacheIdle ==
    /\ cache = <<>>
    /\ sess = [s \in Sessions |-> NoCall]
    /\ ev = NoEvent

cached_keys(c) == {c[i].key : i \in 1..Len(c)}

\* the position of the entry of key k
entry_of(c, k) == CHOOSE i \in 1..Len(c) : c[i].key = k

\* a hit: the entry becomes the most recently used
move_to_end(c, k) ==
    SelectSeq(c, LAMBDA e : e.key # k) \o <<c[entry_of(c, k)]>>

\* a faulty variant of cache_store: a failed fetch is not kept
cache_store_unless_failed(c, k, r) ==
    IF k \in cached_keys(c) \/ r = FetchFailed THEN c
    ELSE IF Len(c) >= maxsize
    THEN Tail(c) \o <<[key |-> k, result |-> r]>>
    ELSE c \o <<[key |-> k, result |-> r]>>

\* after the call of the function: the key may have been stored meanwhile
\* (then the cache stays); a full cache loses its least recently used entry
cache_store(c, k, r) ==
    IF k \in cached_keys(c) THEN c
    ELSE IF Len(c) >= maxsize
    THEN Tail(c) \o <<[key |-> k, result |-> r]>>
    ELSE c \o <<[key |-> k, result |-> r]>>

\* The tickers the next call asks for: the most recently used entry's; the
\* least recently used entry's when the cache is full and that ticker is a
\* flaky one; the first ticker when it has no entry (none yet, or no more);
\* and the ticker after the largest one that has an entry.
tickers_to_call(c) ==
    (IF 1 \in cached_keys(c) THEN {} ELSE {1})
        \cup (IF c = <<>> THEN {} ELSE {c[Len(c)].key})
        \cup (IF Len(c) >= maxsize /\ c[1].key \in FlakyTickers THEN {c[1].key} ELSE {})
        \cup {k \in Tickers : k - 1 \in cached_keys(c) /\ \A j \in cached_keys(c) : j < k}

\* the outcomes of the try block for a ticker
fetch_results(k) ==
    IF k \in FlakyTickers THEN {Fetched, FetchFailed} ELSE {Fetched}

InitCache ==
    /\ CacheIdle
    /\ answer = None
    /\ table_md = None
    /\ explanation = None
    /\ df = NoFrame
    /\ raised = FALSE
    /\ st_error = FALSE
    /\ given = NoGiven
    /\ pc = "stock"
    /\ df2 = NotParsed
    /\ ui = <<>>

\* get_stock_data(k) finds the entry: the stored result comes back
CacheHit(s, k) ==
    /\ sess[s].pc = "idle"
    /\ k \in cached_keys(cache)
    /\ cache' = move_to_end(cache, k)
    /\ ev' = [type |-> "hit", sess |-> s, key |-> k,
              result |-> cache[entry_of(cache, k)].result, warned |-> FALSE]
    /\ UNCHANGED sess
    /\ UNCHANGED tableVars

\* get_stock_data(k) finds no entry: the function body starts and asks the
\* provider
CacheMiss(s, k) ==
    /\ sess[s].pc = "idle"
    /\ k \notin cached_keys(cache)
    /\ sess' = [sess EXCEPT ![s] = [pc |-> "fetching", key |-> k]]
    /\ ev' = [type |-> "miss", sess |-> s, key |-> k, result |-> "none", warned |-> FALSE]
    /\ UNCHANGED cache
    /\ UNCHANGED tableVars

\* the function body returns, with the data or, after st.warning, with the
\* empty result; the wrapper stores what it returned
FetchReturns(s, r) ==
    /\ sess[s].pc = "fetching"
    /\ r \in fetch_results(sess[s].key)
    /\ cache' = cache_store(cache, sess[s].key, r)
    /\ sess' = [sess EXCEPT ![s] = NoCall]
    /\ ev' = [type |-> "return", sess |-> s, key |-> sess[s].key, result |-> r,
              warned |-> (r = FetchFailed)]
    /\ UNCHANGED tableVars

CacheNext ==
    \/ \E s \in Sessions : \E k \in tickers_to_call(cache) : CacheHit(s, k)
    \/ \E s \in Sessions : \E k \in tickers_to_call(cache) : CacheMiss(s, k)
    \/ \E s \in Sessions : \E r \in {Fetched, FetchFailed} : FetchReturns(s, r)

CacheSpec == InitCache /\ [][CacheNext]_vars

(***************************************************************************)
(* The calls of the two table functions.                                   *)
(***************************************************************************)
InitAnswer ==
    /\ answer \in Texts
    /\ table_md = None
    /\ given = NoGiven
    /\ pc = "extract"

InitBlock ==
    /\ answer = None
    /\ \/ \E g \in TableBlocks : given = g /\ table_md = block_text(g)
       \/ given = NoGiven /\ table_md \in EdgeBlocks
    /\ pc = "parse"

Init ==
    /\ InitAnswer \/ InitBlock
    /\ explanation = None
    /\ df = NoFrame
    /\ raised = FALSE
    /\ st_error = FALSE
    /\ df2 = NotParsed
    /\ ui = <<>>
    /\ CacheIdle

\* table_md, explanation = extract_markdown_table(answer)
ExtractMarkdownTable ==
    /\ pc = "extract"
    /\ \E r \in {extract_markdown_table(answer)} :
           /\ raised' = r.raises
           /\ table_md' = IF r.raises THEN None ELSE r.table_md
           /\ explanation' = IF r.raises THEN None ELSE r.explanation
           /\ pc' = IF r.raises \/ r.table_md = None THEN "done" ELSE "parse"
    /\ UNCHANGED <<answer, df, st_error, given, df2, ui>>
    /\ UNCHANGED cacheVars

\* df = parse_portfolio_table(table_md)
ParsePortfolioTable ==
    /\ pc = "parse"
    /\ \E r \in {parse_portfolio_table(table_md)} :
           /\ raised' = (r.kind = "Exception")
           /\ df' = IF r.kind = "Exception" THEN NoFrame
                    ELSE [kind |-> r.kind, columns |-> r.columns, rows |-> r.rows]
           /\ st_error' = r.st_error
    /\ pc' = "done"
    /\ UNCHANGED <<answer, table_md, explanation, given, df2, ui>>
    /\ UNCHANGED cacheVars

\* parse_portfolio_table(text of df), df being a table the function returned
ParseAgain ==
    /\ pc = "done"
    /\ df.kind = "DataFrame"
    /\ df2 = NotParsed
    /\ \E r \in {parse_portfolio_table(to_pipe_text(df))} :
           df2' = [kind |-> r.kind, columns |-> r.columns, rows |-> r.rows]
    /\ UNCHANGED <<answer, table_md, explanation, df, raised, st_error, given, pc, ui>>
    /\ UNCHANGED cacheVars

Next == ExtractMarkdownTable \/ ParsePortfolioTable \/ ParseAgain

Spec == Init /\ [][Next]_vars

(***************************************************************************)
(* The recommendation flow of render_agentic_rag_tab: the handler of the   *)
(* button, from the answer of analyze_portfolio to the last Streamlit call. *)
(***************************************************************************)
Hi == <<"H", "i">>
Bye == <<"B", "y", "e">>

\* the prose before and after the table of an answer
FlowBefore == { <<>>, Hi \o <<"\n", "\n">>, Hi \o <<"\n">> }

FlowAfter == { <<>>, <<"\n", "\n">> \o Bye, <<"\n">> \o Bye }

\* the tables of the answers: markdown rows, with and without a weight column
FlowBlocks ==
    {g \in TableBlocks :
        g.style = "md" /\ g.header \in {<<Nm, Weight, Co>>, <<Nm, Pct, Co>>}}

\* answers without a table
FlowProse == { <<>>, Hi, Hi \o <<"\n">> \o Bye }

\* one Streamlit call: st.success, st.markdown (in the expander), st.error, or
\* the call of plot_portfolio_interactive
UiCall(call, text) == [call |-> call, text |-> text]

\* "if explanation: ... st.markdown(explanation)"
show_explanation(text) ==
    IF text = <<>> THEN <<>> ELSE <<UiCall("markdown", text)>>

\* the result of the branch "if table_md:" when it is not taken
NotCalled == [kind |-> "NotCalled", columns |-> <<>>, rows |-> <<>>, st_error |-> FALSE]

\* "if table_md: df = parse_portfolio_table(table_md)"
parse_if_table(md) ==
    IF md = None \/ md = <<>> THEN NotCalled ELSE parse_portfolio_table(md)

\* the calls after the expander: the st.error of parse_portfolio_table, then
\* the chart or the st.error of the else branch
show_table(p) ==
    IF p.kind = "NotCalled" THEN <<>>
    ELSE (IF p.st_error THEN <<UiCall("error", <<>>)>> ELSE <<>>)
            \o (IF p.kind = "DataFrame" THEN <<UiCall("plot", <<>>)>>
                 ELSE <<UiCall("error", <<>>)>>)

\* the calls of the try block; an exception of extract_markdown_table is
\* caught by "except Exception as e: st.error(...)"
flow_calls(r, p) ==
    IF r.raises THEN <<UiCall("error", <<>>)>>
    ELSE <<UiCall("success", <<>>)>> \o show_explanation(r.explanation) \o show_table(p)

InitFlow ==
    /\ \/ \E b \in FlowBefore, g \in FlowBlocks, a \in FlowAfter :
              given = g /\ answer = b \o block_text(g) \o a
       \/ given = NoGiven /\ answer \in FlowProse
    /\ table_md = None
    /\ explanation = None
    /\ df = NoFrame
    /\ raised = FALSE
    /\ st_error = FALSE
    /\ df2 = NotParsed
    /\ ui = <<>>
    /\ pc = "click"
    /\ CacheIdle

\* the body of "if st.button(...)"
Recommend ==
    /\ pc = "click"
    /\ \E r \in {extract_markdown_table(answer)} :
         \E p \in {parse_if_table(IF r.raises THEN None ELSE r.table_md)} :
           /\ table_md' = IF r.raises THEN None ELSE r.table_md
           /\ explanation' = IF r.raises THEN None ELSE r.explanation
           /\ df' = IF p.kind = "DataFrame"
                    THEN [kind |-> p.kind, columns |-> p.columns, rows |-> p.rows]
                    ELSE NoFrame
           /\ st_error' = p.st_error
           /\ ui' = flow_calls(r, p)
    /\ raised' = FALSE
    /\ pc' = "done"
    /\ UNCHANGED <<answer, given, df2>>
    /\ UNCHANGED cacheVars

FlowNext == Recommend

FlowSpec == InitFlow /\ [][FlowNext]_vars

(***************************************************************************)
(* Properties of extract_markdown_table.                                   *)
(***************************************************************************)
\* extract_markdown_table has returned for the text in answer
Extracted == answer # None /\ pc # "extract"

NoPipe(text) == \A i \in 1..Len(text) : text[i] # "|"

HasPipe(line) == \E i \in 1..Len(line) : line[i] = "|"

\* C1: a text none of whose lines contains '|' gives (None, text), the text
\* exactly as given: neither trimmed nor re-joined.
C1_NoTableReturnsTextUnchanged ==
    (Extracted /\ NoPipe(answer)) =>
        (table_md = None /\ explanation = answer /\ ~raised)

\* a text without '|' that starts with a blank and holds a line break came back
C1_Witness ==
    /\ Extracted
    /\ NoPipe(answer)
    /\ Len(answer) >= 3
    /\ answer[1] = " "
    /\ \E i \in 1..Len(answer) : answer[i] = "\r"
    /\ explanation = answer

\* C2: when a table block is found the remainder is trim(text before the
\* block) + a blank line + trim(text after the block), the block being a
\* stretch of the text that starts with the block's first line and ends with
\* its last; and no line of the block is a line of the remainder.
C2_RemainderIsTextAroundBlock ==
    (Extracted /\ table_md # None) =>
        /\ \E i, j \in 0..Len(answer) :
              /\ i <= j
              /\ NoPipe(SubSeq(answer, 1, i))
              /\ StartsWithAt(answer, splitlines(table_md)[1], i + 1)
              /\ splitlines(SubSeq(answer, i + 1, j)) # <<>>
              /\ splitlines(SubSeq(answer, i + 1, j))[Len(splitlines(SubSeq(answer, i + 1, j)))]
                    = splitlines(table_md)[Len(splitlines(table_md))]
              /\ explanation =
                    strip(SubSeq(answer, 1, i)) \o <<"\n", "\n">>
                        \o strip(SubSeq(answer, j + 1, Len(answer)))
        /\ \A k \in 1..Len(splitlines(table_md)) :
              \A l \in 1..Len(splitlines(explanation)) :
                  splitlines(explanation)[l] # splitlines(table_md)[k]

\* C3: the block is a run of consecutive lines of the text: it starts at the
\* first line with '|', each of its lines has '|', no line of the text lying
\* between two of its lines is missing from it, and it ends where the text
\* ends or the run of lines with '|' does.
C3_BlockIsContiguousRun ==
    (Extracted /\ table_md # None) =>
        \E i, j \in 1..Len(splitlines(answer)) :
            /\ i <= j
            /\ splitlines(table_md) = SubSeq(splitlines(answer), i, j)
            /\ \A k \in 1..(i - 1) : ~HasPipe(splitlines(answer)[k])
            /\ \A k \in i..j : HasPipe(splitlines(answer)[k])
            /\ \/ j = Len(splitlines(answer))
               \/ ~HasPipe(splitlines(answer)[j + 1])

(***************************************************************************)
(* Properties of parse_portfolio_table.                                    *)
(***************************************************************************)
\* parse_portfolio_table has returned for a generated table block
Parsed == pc = "done" /\ given # NoGiven

\* the headers whose only weight-named column is the second one
WeightSecondHeaders ==
    { <<Nm, Weight, Co>>, <<Nm, RATIO, Co>>, <<Nm, Bijung, Co>>,
      <<Nm, Weight, Nm>>, <<Nm, Weight, Empty>> }

\* the headers none of whose names holds "weight", "비중" or "ratio"
HeadersWithoutWeight == { <<Nm, Pct, Co>> }

\* the weight cells that are clean numbers, and the number each denotes
CleanCells == {C40pct, C1000, CNeg35}

clean_value(c) ==
    IF c = C40pct THEN [m |-> 40, e |-> 0]
    ELSE IF c = C1000 THEN [m |-> 1000, e |-> 0]
    ELSE [m |-> -35, e |-> 1]

\* header row, dash row, N >= 1 data rows of three cells, clean weight cells
WellFormed(g) ==
    /\ g.header \in WeightSecondHeaders
    /\ g.dash
    /\ Len(g.rows) >= 1
    /\ \A i \in 1..Len(g.rows) :
          g.rows[i].shape = "normal" /\ g.rows[i].w \in CleanCells

\* the name cell of the i-th returned row, without the blanks around it
row_name(i) == strip(df.rows[i][1].s)

\* C4: a well-formed block with clean weight cells gives a table of exactly
\* its N data rows in their order, each weight the number its cell denotes
\* once '%' and ',' are removed.
C4_CleanTableKeepsRowsAndConvertsWeights ==
    (Parsed /\ WellFormed(given)) =>
        /\ df.kind = "DataFrame"
        /\ Len(df.rows) = Len(given.rows)
        /\ \A i \in 1..Len(given.rows) :
              /\ row_name(i) = RowNames[i]
              /\ df.rows[i][2].t = "num"
              /\ df.rows[i][2].m = clean_value(given.rows[i].w).m
              /\ df.rows[i][2].e = clean_value(given.rows[i].w).e

\* a two-row table "40%", "1,000" came back as 40 and 1000
C4_Witness ==
    /\ Parsed
    /\ WellFormed(given)
    /\ given.style = "md"
    /\ Len(given.rows) = 2
    /\ given.rows[1].w = C40pct
    /\ given.rows[2].w = C1000
    /\ Len(df.rows) = 2
    /\ df.rows[1][2] = [t |-> "num", s |-> <<>>, m |-> 40, e |-> 0]
    /\ df.rows[2][2] = [t |-> "num", s |-> <<>>, m |-> 1000, e |-> 0]

\* C5: parse_portfolio_table returns None when no data row survives the
\* coercion of the weight column: it never returns a table with zero rows.
C5_NeverReturnsEmptyTable ==
    pc = "done" => ~(df.kind = "DataFrame" /\ Len(df.rows) = 0)

\* C6: every row of a returned table has a finite weight, neither NaN nor an
\* infinity.
C6_ReturnedWeightsAreFinite ==
    (pc = "done" /\ df.kind = "DataFrame") =>
        \A i \in 1..Len(df.rows) : df.rows[i][weight_position(df.columns)].t = "num"

\* C7: the rows of the returned table are exactly the data rows whose weight
\* cell parses as a number, in their order: a row with an unparseable (or no)
\* weight cell is gone, every other row is there, and there are never more
\* rows than data rows.  (A row whose weight cell reads "inf" is left open.)
C7_RowsAreThoseWithNumericWeight ==
    (Parsed /\ given.header \in WeightSecondHeaders /\ df.kind = "DataFrame") =>
        /\ Len(df.rows) <= Len(given.rows)
        /\ \A i \in 1..Len(given.rows) :
              /\ (given.rows[i].w \in CleanCells) =>
                    \E k \in 1..Len(df.rows) : row_name(k) = RowNames[i]
              /\ (given.rows[i].w = CNA \/ given.rows[i].shape = "short") =>
                    \A k \in 1..Len(df.rows) : row_name(k) # RowNames[i]
        /\ \A k \in 1..Len(df.rows) :
              \E i \in 1..Len(given.rows) : row_name(k) = RowNames[i]
        /\ \A k, l \in 1..Len(df.rows) :
              k < l => \E i, j \in 1..Len(given.rows) :
                          i < j /\ row_name(k) = RowNames[i] /\ row_name(l) = RowNames[j]

\* C8: a block whose header has no name holding "weight", "비중" or "ratio",
\* in any case, gives None whatever its data rows are.
C8_NoWeightColumnReturnsNone ==
    /\ (Parsed /\ given.header \in HeadersWithoutWeight) => df.kind = "None"
    /\ (Extracted /\ pc = "done" /\ table_md # None) => df.kind = "None"

\* a block with the header Nm, Pct, Co and two clean data rows gave None
C8_Witness ==
    /\ Parsed
    /\ given.header = <<Nm, Pct, Co>>
    /\ given.dash
    /\ Len(given.rows) = 2
    /\ \A i \in 1..2 : given.rows[i].shape = "normal" /\ given.rows[i].w \in CleanCells
    /\ df.kind = "None"
    /\ ~st_error

\* blocks without a record: empty, blank, or decorative rows only
BlocksWithoutHeader ==
    { <<>>, <<" ">>, <<"\n">>, <<"-", "-", "-">>, <<"|", "-", "-", "-", "|">>,
      <<"|", " ", "|">> }

\* a data row after the first has more fields than the rows before it
LongRowAfterFirst(g) ==
    /\ Len(g.rows) >= 2
    /\ g.rows[1].shape # "long"
    /\ \E j \in 2..Len(g.rows) : g.rows[j].shape = "long"

\* two weight columns named alike but for the blanks around the name
WeightNameTwice(g) ==
    g.style = "pad" /\ g.header \in {<<Nm, Weight, Weight>>, <<Weight, Weight, Co>>}

C10_ColumnNamesDistinctAndTrimmed ==
    (pc = "done" /\ df.kind = "DataFrame") =>
        /\ \A a, b \in 1..Len(df.columns) : a # b => df.columns[a] # df.columns[b]
        /\ \A a \in 1..Len(df.columns) : df.columns[a] = strip(df.columns[a])

(***************************************************************************)
(* Parsing a returned table again.                                         *)
(***************************************************************************)
\* C11: a returned table, written back as pipe-delimited text (header line
\* and data rows, no dash row) and parsed again, gives a table with the same
\* rows in the same order, the weights included.
C11_ParsingAgainKeepsRows ==
    (df2 # NotParsed) => (df2.kind = "DataFrame" /\ df2.rows = df.rows)

\* a block with a dash row whose weights "40%" and "-3.5" became 40 and -3.5
\* was written back and parsed again
C11_Witness ==
    /\ df2.kind = "DataFrame"
    /\ given # NoGiven
    /\ given.dash
    /\ Len(df.rows) = 2
    /\ df.rows[1][2] = [t |-> "num", s |-> <<>>, m |-> 40, e |-> 0]
    /\ df.rows[2][2] = [t |-> "num", s |-> <<>>, m |-> -35, e |-> 1]
    /\ df2.rows = df.rows

(***************************************************************************)
(* Properties of the recommendation flow.                                  *)
(***************************************************************************)
Called(call) == \E i \in 1..Len(ui) : ui[i].call = call

\* the text is on the page: every line of it is a line of a displayed text
Displayed(text) ==
    \A k \in 1..Len(splitlines(text)) :
        \E i \in 1..Len(ui) :
            /\ ui[i].call = "markdown"
            /\ \E l \in 1..Len(splitlines(ui[i].text)) :
                  splitlines(ui[i].text)[l] = splitlines(text)[k]

\* C12: the chart is drawn only when a table block was found and parsed to a
\* table; when parsing gives None no chart is drawn and the raw text of the
\* answer, its prose and its table text, is displayed instead.
C12_PlotOnlyAfterParseElseRawText ==
    (pc = "done" /\ ui # <<>>) =>
        /\ Called("plot") => (table_md # None /\ df.kind = "DataFrame")
        /\ (table_md # None /\ df.kind = "None") =>
              (~Called("plot") /\ Displayed(answer))

(***************************************************************************)
(* The choice of the weight column.                                        *)
(***************************************************************************)
\* the headers with two names that hold a weight substring, the leftmost of
\* them in the second column
SeveralWeightHeaders == { <<Nm, RATIO, Weight>>, <<Nm, Weight, Weight>> }

NoLongRow(g) == \A i \in 1..Len(g.rows) : g.rows[i].shape # "long"

\* the cell is the text it was in the block (up to the blanks after it), a
\* missing value when that text was empty
AsWritten(cell, text) ==
    IF text = <<>> THEN cell.t = "nan"
    ELSE cell.t = "str" /\ strip(cell.s) = text

\* C13: with several weight-named columns the leftmost one is the weight
\* column: its cells, and only its cells, are turned into numbers, the cells
\* of every other column (a weight-named one included) stay as they were
\* read, and plot_portfolio_interactive takes its weights from that column.
C13_LeftmostWeightColumnOnly ==
    (Parsed /\ given.header \in SeveralWeightHeaders /\ NoLongRow(given)
        /\ df.kind = "DataFrame") =>
        /\ Len(df.columns) = 3
        /\ has_keyword(df.columns[2]) /\ has_keyword(df.columns[3])
        /\ \A i \in 1..Len(given.rows) :
              (given.rows[i].w \in CleanCells) =>
                  \E k \in 1..Len(df.rows) :
                      /\ AsWritten(df.rows[k][1], RowNames[i])
                      /\ df.rows[k][2].t = "num"
                      /\ df.rows[k][2].m = clean_value(given.rows[i].w).m
                      /\ df.rows[k][2].e = clean_value(given.rows[i].w).e
                      /\ AsWritten(df.rows[k][3], third_cell(i))
        /\ \A k \in 1..Len(df.rows) :
              /\ df.rows[k][1].t \in {"str", "nan"}
              /\ df.rows[k][2].t \in {"num", "inf"}
              /\ df.rows[k][3].t \in {"str", "nan"}
        /\ plot_weight_position(df.columns) = 2

\* a table with the columns Nm, RATIO, Weight came back with the number of
\* the RATIO cell and the text "x" still in its Weight column
C13_Witness ==
    /\ Parsed
    /\ given.header = <<Nm, RATIO, Weight>>
    /\ NoLongRow(given)
    /\ df.kind = "DataFrame"
    /\ Len(df.rows) = 2
    /\ df.rows[2][2] = [t |-> "num", s |-> <<>>, m |-> 1000, e |-> 0]
    /\ df.rows[2][3].t = "str"
    /\ strip(df.rows[2][3].s) = <<"x">>
    /\ plot_weight_position(df.columns) = 2

(***************************************************************************)
(* Decorative rows.                                                        *)
(***************************************************************************)
DecorativeChars == {"-", ":", " "}

DecorativeText(s) == char_set(s) \subseteq DecorativeChars /\ "-" \in char_set(s)

\* a row of a table that was read from a separator row: dashes and colons
\* in its cells, or nothing
DecorativeRow(row) ==
    /\ \A k \in 1..Len(row) : row[k].t = "nan" \/ (row[k].t = "str" /\ DecorativeText(row[k].s))
    /\ \E k \in 1..Len(row) : row[k].t = "str"

\* C14: no row of a returned table is a separator row of the block, be it a
\* row of dashes or a markdown alignment row with colons, under the header or
\* at the end of the block; the table has no more rows than the block has
\* data rows, and its column names are those of the header line, not the
\* separator row's cells.
C14_NoDecorativeRowInTable ==
    (Parsed /\ df.kind = "DataFrame") =>
        /\ \A k \in 1..Len(df.rows) : ~DecorativeRow(df.rows[k])
        /\ Len(df.rows) <= Len(given.rows)
        /\ \A c \in 1..Len(df.columns) : ~DecorativeText(df.columns[c])

\* a block with an alignment row ":--|--:|:-:" under its header gave a table
\* of its two data rows
C14_Witness ==
    /\ Parsed
    /\ given.dash
    /\ given.deco = "colon"
    /\ given.header = <<Nm, Weight, Co>>
    /\ Len(given.rows) = 2
    /\ df.kind = "DataFrame"
    /\ Len(df.rows) = 2
    /\ AsWritten(df.rows[1][1], RowNames[1])
    /\ AsWritten(df.rows[2][1], RowNames[2])

(***************************************************************************)
(* A block whose text occurs more than once.                               *)
(***************************************************************************)
\* the text of the block occurs at two places of the answer at least
OccursTwice(text, md) ==
    \E i, j \in 1..Len(text) :
        i < j /\ StartsWithAt(text, md, i) /\ StartsWithAt(text, md, j)

\* C15: when the text of the block occurs more than once in the answer, the
\* remainder is trim(text before the first occurrence) + a blank line +
\* trim(all the text after the first occurrence), later occurrences and what
\* follows them included.
C15_SplitAtFirstOccurrenceOnly ==
    (Extracted /\ table_md # None /\ OccursTwice(answer, table_md)) =>
        explanation =
            strip(SubSeq(answer, 1, find(answer, table_md) - 1))
                \o <<"\n", "\n">>
                \o strip(SubSeq(answer, find(answer, table_md) + Len(table_md), Len(answer)))

(***************************************************************************)
(* Effects outside the return value.                                       *)
(***************************************************************************)
\* C16: the two functions are pure: whatever the argument, and whether the
\* call succeeds or fails, nothing but the returned value is produced; in
\* particular nothing is written to the page.
C16_NothingOutsideTheReturnValue ==
    (pc = "done") => ~st_error

(***************************************************************************)
(* The memoization of get_stock_data.                                      *)
(***************************************************************************)
stored(c, k) == c[entry_of(c, k)].result

\* C17: the cache holds at most maxsize entries; a call for a ticker that
\* has an entry returns the stored result and does not start a fetch; what
\* a fetch returned is the ticker's entry afterwards, the empty result of a
\* failed fetch like any other, so that a failure is not retried while its
\* entry lasts; an entry keeps its result, and it is lost only when the cache
\* is full and it is the least recently used one.
C17_MemoizedUntilEvicted ==
    [][ /\ Len(cache') <= maxsize
        /\ (ev'.type \in {"hit", "miss"} /\ ev'.key \in cached_keys(cache)) =>
              /\ ev'.type = "hit"
              /\ ev'.result = stored(cache, ev'.key)
              /\ sess' = sess
        /\ (ev'.type = "return") =>
              /\ ev'.key \in cached_keys(cache')
              /\ (ev'.key \notin cached_keys(cache)) =>
                    stored(cache', ev'.key) = ev'.result
        /\ \A k \in cached_keys(cache) :
              IF k \in cached_keys(cache')
              THEN stored(cache', k) = stored(cache, k)
              ELSE Len(cache) = maxsize /\ k = cache[1].key /\ ev'.type = "return"
      ]_vars

\* the fetch of ticker 1 failed, the cache filled up, and a later call for
\* ticker 1 got the stored empty result
C17_Witness ==
    /\ ev.type = "hit"
    /\ ev.key = 1
    /\ ev.result = FetchFailed
    /\ Len(cache) = maxsize

====
